---------------------------- MODULE Spec2Model ----------------------------
(***************************************************************************)
(* A model of pybal's scenario discovery and symbol index:                 *)
(*   src/data/scenario.py   ScenarioConfig, ScenarioManager                *)
(*   src/data/data_load.py  DataLoader, DataManager                        *)
(*                                                                         *)
(* Strings the code inspects (file names, filter options) are sequences of *)
(* one-character strings, so that suffix tests, the year regex, strip()    *)
(* and lower() are computed character by character.  The alphabet has no   *)
(* newline, so the regex's "." is any character and "$" is the end.        *)
(* A Python dict is a sequence of <<key, value>> pairs in insertion order; *)
(* an Optional value is a sequence of length 0 (None) or 1.                *)
(***************************************************************************)
EXTENDS Integers, Sequences, FiniteSets, Bags, TLC

VARIABLES
    pc,                 \* which object the behaviour is about, and its phase
    cfg,                \* SpecClassify: the ScenarioConfig constructed, <<>> before
    fs,                 \* the directory tree under root_path
    scenarios,          \* ScenarioManager.scenarios: dict name -> ScenarioConfig
    is_single_scenario, \* ScenarioManager.is_single_scenario
    scenarios_names,    \* ScenarioManager.scenarios_names
    output_years,       \* ScenarioManager.output_years
    lastOp,             \* the last call made, its arguments and its outcome
    stores,             \* the content of every gdx file: path -> container
    dm_pc,              \* the phase of the DataManager
    dm_scenarios,       \* DataManager.scenarios
    dm_scenarios_names, \* DataManager.scenarios_names
    dm_output_years,    \* DataManager.output_years
    symbol_to_file,     \* DataManager._symbol_to_file: dict symbol -> key
    symbol_in_scenarios,\* DataManager._symbol_in_scenarios
    diag,               \* the warnings _verify_symbol printed, in order
    opened,             \* the paths gt.Container was opened on, in order
    key_data_map,       \* DataManager.key_data_map: key -> the DataLoaders held
    loads,              \* the bag of the DataLoaders get_symbol constructed
    calls,              \* the number of get_symbol calls made
    answer              \* the last get_symbol call and what it produced

registryVars == <<fs, scenarios, is_single_scenario, scenarios_names, output_years>>

indexVars == <<dm_pc, dm_scenarios, dm_scenarios_names, dm_output_years,
               symbol_to_file, symbol_in_scenarios, diag, opened>>

queryVars == <<key_data_map, loads, calls, answer>>

dataVars == <<stores, indexVars, queryVars>>

vars == <<pc, cfg, lastOp, registryVars, dataVars>>

---------------------------------------------------------------------------
(* Bounds *)

MaxFiles == 3
MaxDirs == 3
MaxScen == 2
MaxFilled == 3

---------------------------------------------------------------------------
(* Characters and strings *)

UpperLetters == <<"A","B","C","D","E","F","G","H","I","J","K","L","M",
                  "N","O","P","Q","R","S","T","U","V","W","X","Y","Z">>
LowerLetters == <<"a","b","c","d","e","f","g","h","i","j","k","l","m",
                  "n","o","p","q","r","s","t","u","v","w","x","y","z">>
Digits == {"0","1","2","3","4","5","6","7","8","9"}
Whitespace == {" ", "\t"}

ToLower(c) ==
    IF \E i \in 1..26 : UpperLetters[i] = c
    THEN LowerLetters[CHOOSE i \in 1..26 : UpperLetters[i] = c]
    ELSE c

LowerStr(s) == [i \in 1..Len(s) |-> ToLower(s[i])]

EndsWith(s, suf) ==
    /\ Len(s) >= Len(suf)
    /\ SubSeq(s, Len(s) - Len(suf) + 1, Len(s)) = suf

RECURSIVE LStrip(_)
LStrip(s) ==
    IF s # <<>> /\ Head(s) \in Whitespace THEN LStrip(Tail(s)) ELSE s

RECURSIVE RStrip(_)
RStrip(s) ==
    IF s # <<>> /\ s[Len(s)] \in Whitespace
    THEN RStrip(SubSeq(s, 1, Len(s) - 1))
    ELSE s

Strip(s) == RStrip(LStrip(s))

Range(s) == {s[i] : i \in 1..Len(s)}

---------------------------------------------------------------------------
(* Python dicts as sequences of <<key, value>> pairs, insertion-ordered *)

DictKeys(d) == {d[i][1] : i \in 1..Len(d)}
DictKeyList(d) == [i \in 1..Len(d) |-> d[i][1]]
DictValues(d) == {d[i][2] : i \in 1..Len(d)}
DictGet(d, k) == d[CHOOSE i \in 1..Len(d) : d[i][1] = k][2]

\* d[k] = v: an existing key keeps its position, a new key goes last
DictSet(d, k, v) ==
    IF k \in DictKeys(d)
    THEN [i \in 1..Len(d) |-> IF d[i][1] = k THEN <<k, v>> ELSE d[i]]
    ELSE Append(d, <<k, v>>)

None == <<>>
Some(v) == <<v>>

---------------------------------------------------------------------------
(* The parts of the state a behaviour does not use *)

\* no ScenarioManager
RegistryIdle ==
    /\ fs = <<>>
    /\ scenarios = <<>>
    /\ is_single_scenario = FALSE
    /\ scenarios_names = {}
    /\ output_years = {}

\* BM_data, Basis_data, input_data, output_data, output_year_data as
\* __init__ creates them; a dict of DataLoaders is held as the set of its
\* <<scenario key, path>> items, since get_symbol never iterates over it
EmptyDataMap ==
    [key \in {"BM", "Basis", "input", "output", "output_year"} |-> {}]

\* a DataFrame: its column names and its rows, a row a sequence of cells
EmptyFrame == [columns |-> <<>>, rows |-> <<>>]

\* no get_symbol call yet
NoAnswer ==
    [symbol_name |-> "none", scenarios |-> None, raised |-> "none",
     missing |-> <<>>, names |-> {}, scen_keys |-> {}, skipped |-> {},
     frame |-> EmptyFrame]

\* no DataManager yet
DataIdle ==
    /\ dm_pc = "data_new"
    /\ dm_scenarios = <<>>
    /\ dm_scenarios_names = {}
    /\ dm_output_years = {}
    /\ symbol_to_file = <<>>
    /\ symbol_in_scenarios = {}
    /\ diag = <<>>
    /\ opened = <<>>
    /\ key_data_map = EmptyDataMap
    /\ loads = EmptyBag
    /\ calls = 0
    /\ answer = NoAnswer

---------------------------------------------------------------------------
(* File names *)

W_output == <<"-","o","u","t","p","u","t">>
W_OUTPUT == <<"-","O","U","T","P","U","T">>
W_input == <<"-","i","n","p","u","t">>
W_Input == <<"-","I","n","p","u","t">>
W_BM == <<"-","B","M">>
W_bm == <<"-","b","m">>
W_Basis == <<"-","B","a","s","i","s">>
W_basis == <<"-","b","a","s","i","s">>
W_misc == <<"-","m","i","s","c">>
W_gdx == <<".","g","d","x">>
W_GDX == <<".","G","D","X">>
Y2030 == <<"2","0","3","0">>
Y2031 == <<"2","0","3","1">>
Y2032 == <<"2","0","3","2">>
Dash == <<"-">>
Bx == <<"x">>
By == <<"y">>

\* the file names a ScenarioConfig is constructed from in SpecClassify
Filenames ==
    { Bx \o W_output \o Dash \o Y2030 \o W_gdx,
      By \o W_output \o Dash \o Y2030 \o W_gdx,
      Bx \o W_output \o Dash \o Y2031 \o W_gdx,
      Bx \o W_OUTPUT \o Dash \o Y2030 \o W_GDX,
      Bx \o W_output \o Dash \o <<"2","0","3">> \o W_gdx,
      W_output \o Dash \o Y2030 \o W_gdx,
      Bx \o W_output \o W_gdx,
      By \o W_output \o W_gdx,
      Bx \o W_OUTPUT \o W_gdx,
      Bx \o W_input \o W_gdx,
      Bx \o W_Input \o W_gdx,
      Bx \o W_BM \o W_gdx,
      Bx \o W_bm \o W_gdx,
      Bx \o W_Basis \o W_gdx,
      Bx \o W_basis \o W_gdx,
      Bx \o W_misc \o W_gdx,
      Bx \o W_input \o W_output \o W_gdx }

\* the path of the file called filename in directory dir
MkPath(dir, filename) == <<dir, filename>>

\* sequences without repetition of at most n elements of S
RECURSIVE DistinctSeqs(_, _)
DistinctSeqs(S, n) ==
    IF n = 0 THEN {<<>>}
    ELSE LET shorter == DistinctSeqs(S, n - 1)
         IN  shorter \cup
             UNION { {Append(s, x) : x \in S \ Range(s)} :
                     s \in {t \in shorter : Len(t) = n - 1} }

---------------------------------------------------------------------------
(* ScenarioConfig: file-role classification *)

\* re.compile(r'^(.+)-output-(\d{4})\.gdx$', re.IGNORECASE).match(filename)
MatchOutputYear(filename) ==
    LET n == Len(filename) IN
    /\ n >= 17
    /\ LowerStr(SubSeq(filename, n - 3, n)) = W_gdx
    /\ \A i \in (n - 7)..(n - 4) : filename[i] \in Digits
    /\ LowerStr(SubSeq(filename, n - 15, n - 8)) = W_output \o Dash

\* match.group(2)
YearGroup(filename) == SubSeq(filename, Len(filename) - 7, Len(filename) - 4)

\* a variant that tests for '-output' anywhere before the extension
MatchOutputAnywhere(filename) ==
    /\ EndsWith(filename, W_gdx)
    /\ \E i \in 1..Len(filename) :
          /\ i + 6 <= Len(filename)
          /\ SubSeq(filename, i, i + 6) = W_output

MatchOutput(filename) == EndsWith(filename, W_output \o W_gdx)
MatchInput(filename) == EndsWith(filename, W_input \o W_gdx)
MatchBM(filename) == EndsWith(filename, W_BM \o W_gdx)
MatchBasis(filename) == EndsWith(filename, W_Basis \o W_gdx)

\* the fields _categorize_files assigns, as the dataclass defaults leave them
EmptySlots ==
    [ BM_path |-> None, Basis_path |-> None, input_path |-> None,
      output_path |-> None, output_year_path |-> <<>>,
      output_other_path |-> <<>> ]

\* a variant in which a single-valued slot keeps the first file assigned to it
CategorizeOneKeepFirst(slots, filename, filepath) ==
    IF MatchOutputYear(filename)
    THEN [slots EXCEPT !.output_year_path =
                    DictSet(@, YearGroup(filename), filepath)]
    ELSE IF MatchOutput(filename)
    THEN [slots EXCEPT !.output_path = IF @ = None THEN Some(filepath) ELSE @]
    ELSE IF MatchInput(filename)
    THEN [slots EXCEPT !.input_path = IF @ = None THEN Some(filepath) ELSE @]
    ELSE IF MatchBM(filename)
    THEN [slots EXCEPT !.BM_path = IF @ = None THEN Some(filepath) ELSE @]
    ELSE IF MatchBasis(filename)
    THEN [slots EXCEPT !.Basis_path = IF @ = None THEN Some(filepath) ELSE @]
    ELSE [slots EXCEPT !.output_other_path = DictSet(@, filename, filepath)]

\* one iteration of the loop of _categorize_files
CategorizeOne(slots, filename, filepath) ==
    IF MatchOutputYear(filename)
    THEN [slots EXCEPT !.output_year_path =
                    DictSet(@, YearGroup(filename), filepath)]
    ELSE IF MatchOutput(filename)
    THEN [slots EXCEPT !.output_path = Some(filepath)]
    ELSE IF MatchInput(filename)
    THEN [slots EXCEPT !.input_path = Some(filepath)]
    ELSE IF MatchBM(filename)
    THEN [slots EXCEPT !.BM_path = Some(filepath)]
    ELSE IF MatchBasis(filename)
    THEN [slots EXCEPT !.Basis_path = Some(filepath)]
    ELSE [slots EXCEPT !.output_other_path = DictSet(@, filename, filepath)]

RECURSIVE CategorizeFrom(_, _, _)
CategorizeFrom(gdx_files, i, slots) ==
    IF i > Len(gdx_files) THEN slots
    ELSE CategorizeFrom(gdx_files, i + 1,
                        CategorizeOne(slots, gdx_files[i][1], gdx_files[i][2]))

CategorizeFiles(gdx_files) == CategorizeFrom(gdx_files, 1, EmptySlots)

\* ScenarioConfig(name=..., gdx_files=...) with __post_init__
ScenarioConfig(name, gdx_files) ==
    LET slots == CategorizeFiles(gdx_files) IN
    [ name |-> name,
      gdx_files |-> gdx_files,
      BM_path |-> slots.BM_path,
      Basis_path |-> slots.Basis_path,
      input_path |-> slots.input_path,
      output_path |-> slots.output_path,
      output_year_path |-> slots.output_year_path,
      output_years |-> DictKeyList(slots.output_year_path),
      output_other_path |-> slots.output_other_path ]

\* the dict {filename: path} of the files named by the sequence names
GdxDict(dir, names) == [i \in 1..Len(names) |-> <<names[i], MkPath(dir, names[i])>>]

---------------------------------------------------------------------------
(* SpecClassify: one ScenarioConfig constructed from a mapping of files *)

InitClassify ==
    /\ pc = "config_new"
    /\ cfg = None
    /\ lastOp = "none"
    /\ RegistryIdle
    /\ stores = <<>>
    /\ DataIdle

ConstructConfig ==
    /\ pc = "config_new"
    /\ \E names \in DistinctSeqs(Filenames, MaxFiles) :
          cfg' = Some(ScenarioConfig("s", GdxDict("s", names)))
    /\ pc' = "config_done"
    /\ lastOp' = "ScenarioConfig"
    /\ UNCHANGED <<registryVars, dataVars>>

NextClassify == ConstructConfig

SpecClassify == InitClassify /\ [][NextClassify]_vars

---------------------------------------------------------------------------
(* The directory tree a ScenarioManager is pointed at *)

\* the *.gdx files of a scenario's output folder, in the order glob yields them
GdxInOut == << Bx \o W_input \o W_gdx, Bx \o W_output \o W_gdx >>
GdxBoth ==
    << Bx \o W_input \o W_gdx, Bx \o W_output \o W_gdx,
       Bx \o W_output \o Dash \o Y2030 \o W_gdx,
       Bx \o W_output \o Dash \o Y2031 \o W_gdx >>
GdxYearly ==
    << Bx \o W_output \o Dash \o Y2032 \o W_gdx,
       Bx \o W_output \o Dash \o Y2031 \o W_gdx >>
GdxBothOneYear ==
    << Bx \o W_output \o Dash \o Y2031 \o W_gdx,
       Bx \o W_input \o W_gdx, Bx \o W_output \o W_gdx >>
GdxOutputOnly ==
    << Bx \o W_output \o W_gdx, Bx \o W_BM \o W_gdx,
       Bx \o W_Basis \o W_gdx, Bx \o W_misc \o W_gdx >>

NoCtrl == "none"
DirName(i) == <<"A", "B", "C", "D", "E">>[i]

\* what an entry of root_path can be: a plain file, a folder without
\* balopt.opt, or a scenario folder
EntryKinds ==
    { [is_dir |-> FALSE, ctrl |-> NoCtrl, gdx |-> <<>>],
      [is_dir |-> TRUE, ctrl |-> NoCtrl, gdx |-> GdxBoth],
      [is_dir |-> TRUE, ctrl |-> "balopt.OPT", gdx |-> GdxOutputOnly] }
    \cup { [is_dir |-> TRUE, ctrl |-> "balopt.opt", gdx |-> g] :
             g \in {GdxInOut, GdxBoth, GdxYearly, GdxBothOneYear} }

MkEntry(i, k) ==
    [name |-> DirName(i), is_dir |-> k.is_dir, ctrl |-> k.ctrl, gdx |-> k.gdx,
     exists |-> TRUE, children |-> <<>>]

\* the entries of root_path, in the order iterdir yields them
RECURSIVE ChildSeqs(_)
ChildSeqs(n) ==
    IF n = 0 THEN {<<>>}
    ELSE LET shorter == ChildSeqs(n - 1)
         IN  shorter \cup
             { Append(s, MkEntry(n, k)) :
                 s \in {t \in shorter : Len(t) = n - 1}, k \in EntryKinds }

RootKinds ==
    { [exists |-> FALSE, is_dir |-> FALSE, ctrl |-> NoCtrl, gdx |-> <<>>],
      [exists |-> TRUE, is_dir |-> FALSE, ctrl |-> NoCtrl, gdx |-> <<>>],
      [exists |-> TRUE, is_dir |-> TRUE, ctrl |-> NoCtrl, gdx |-> <<>>],
      [exists |-> TRUE, is_dir |-> TRUE, ctrl |-> "balopt.opt", gdx |-> GdxBoth] }

FileSystems ==
    { [name |-> "root", exists |-> r.exists, is_dir |-> r.is_dir,
       ctrl |-> r.ctrl, gdx |-> r.gdx,
       children |-> IF r.is_dir THEN c ELSE <<>>] :
          r \in RootKinds, c \in ChildSeqs(MaxDirs) }

---------------------------------------------------------------------------
(* ScenarioManager: discovery *)

\* list(folder_path.glob(pattern)) for a pattern without wildcards
Glob(folder, pattern) == IF folder.ctrl = pattern THEN <<pattern>> ELSE <<>>

IsValidScenarioFolder(folder) ==
    IF ~folder.is_dir THEN FALSE
    ELSE Len(Glob(folder, "balopt.opt") \o Glob(folder, "balopt.OPT")) > 0

\* None, or the ScenarioConfig of the folder
ScanScenarioFolder(folder) ==
    IF ~IsValidScenarioFolder(folder) THEN None
    ELSE Some(ScenarioConfig(folder.name, GdxDict(folder.name, folder.gdx)))

\* the loop over root_path.iterdir(): acc is [scenarios, warned]
RECURSIVE ScanChildren(_, _, _)
ScanChildren(children, i, acc) ==
    IF i > Len(children) THEN acc
    ELSE LET item == children[i]
             config == ScanScenarioFolder(item)
         IN  ScanChildren(children, i + 1,
                IF ~item.is_dir THEN acc
                ELSE IF config # None
                THEN [acc EXCEPT !.scenarios = DictSet(@, config[1].name, config[1])]
                ELSE [acc EXCEPT !.warned = Append(@, item.name)])

\* a variant that goes on to scan the subfolders of a root that is a scenario
DiscoverAlsoBelowRoot(root) ==
    IF IsValidScenarioFolder(root)
    THEN LET below == ScanChildren(root.children, 1,
                         [scenarios |-> <<<<root.name, ScanScenarioFolder(root)[1]>>>>,
                          warned |-> <<>>])
         IN  [scenarios |-> below.scenarios, is_single_scenario |-> TRUE,
              warned |-> below.warned, warned_empty |-> FALSE, raised |-> "none"]
    ELSE IF ~root.is_dir
    THEN [scenarios |-> <<>>, is_single_scenario |-> FALSE, warned |-> <<>>,
          warned_empty |-> FALSE, raised |-> "NotADirectoryError"]
    ELSE LET found == ScanChildren(root.children, 1,
                                   [scenarios |-> <<>>, warned |-> <<>>])
         IN  [scenarios |-> found.scenarios, is_single_scenario |-> FALSE,
              warned |-> found.warned,
              warned_empty |-> (found.scenarios = <<>>), raised |-> "none"]

\* _discover_scenarios: the registry's fields and the warnings issued
DiscoverScenarios(root) ==
    IF IsValidScenarioFolder(root)
    THEN LET config == ScanScenarioFolder(root) IN
         [scenarios |-> IF config # None
                        THEN <<<<config[1].name, config[1]>>>> ELSE <<>>,
          is_single_scenario |-> TRUE, warned |-> <<>>,
          warned_empty |-> (config = None), raised |-> "none"]
    ELSE IF ~root.is_dir
    THEN \* iterdir() of a path that is no directory
         [scenarios |-> <<>>, is_single_scenario |-> FALSE, warned |-> <<>>,
          warned_empty |-> FALSE, raised |-> "NotADirectoryError"]
    ELSE LET found == ScanChildren(root.children, 1,
                                   [scenarios |-> <<>>, warned |-> <<>>])
         IN  [scenarios |-> found.scenarios, is_single_scenario |-> FALSE,
              warned |-> found.warned,
              warned_empty |-> (found.scenarios = <<>>), raised |-> "none"]

\* a variant that never refreshes the names
StaleScenariosNames(scens) == scenarios_names

\* set(self.scenarios.keys())
ScenariosNamesOf(scens) == DictKeys(scens)

\* set([item for config in self.scenarios.values()
\*      if config.output_years != [] for item in config.output_years])
OutputYearsOf(scens) ==
    UNION { Range(scens[i][2].output_years) :
              i \in {j \in 1..Len(scens) : scens[j][2].output_years # <<>>} }

NoOp == [op |-> "none", option |-> None, error |-> "none", result |-> <<>>,
         warned |-> <<>>, warned_empty |-> FALSE]

InitManager ==
    /\ pc = "manager_new"
    /\ cfg = None
    /\ fs \in FileSystems
    /\ scenarios = <<>>
    /\ is_single_scenario = FALSE
    /\ scenarios_names = {}
    /\ output_years = {}
    /\ lastOp = NoOp
    /\ stores = <<>>
    /\ DataIdle

\* ScenarioManager(path), auto_discover left at its default as at every call
\* site (data_load.py:68, dh_fixed.py:33)
ConstructManager ==
    /\ pc = "manager_new"
    /\ IF ~fs.exists
       THEN /\ pc' = "manager_failed"
            /\ lastOp' = [NoOp EXCEPT !.op = "ScenarioManager",
                                      !.error = "FileNotFoundError"]
            /\ UNCHANGED <<scenarios, is_single_scenario, scenarios_names,
                           output_years>>
       ELSE LET d == DiscoverScenarios(fs) IN
            /\ scenarios' = d.scenarios
            /\ is_single_scenario' = d.is_single_scenario
            /\ lastOp' = [NoOp EXCEPT !.op = "ScenarioManager",
                                      !.error = d.raised,
                                      !.warned = d.warned,
                                      !.warned_empty = d.warned_empty]
            /\ IF d.raised # "none"
               THEN /\ pc' = "manager_failed"
                    /\ UNCHANGED <<scenarios_names, output_years>>
               ELSE /\ pc' = "manager_ready"
                    /\ scenarios_names' = ScenariosNamesOf(d.scenarios)
                    /\ output_years' = OutputYearsOf(d.scenarios)
    /\ UNCHANGED <<cfg, fs, dataVars>>

---------------------------------------------------------------------------
(* ScenarioManager: filter_scenarios and get_common_output_years *)

\* valid_opts, in the order of the dict literal
ValidOpts ==
    << <<"inout", {<<"i","n","o","u","t">>, <<"i","o">>,
                   <<"i","n","p","u","t","-","o","u","t","p","u","t">>,
                   <<"i","n","p","u","t","_","o","u","t","p","u","t">>}>>,
       <<"yearly", {<<"y","e","a","r","l","y">>, <<"y","e","a","r">>,
                    <<"o","u","t","p","u","t","-","y","e","a","r">>,
                    <<"o","u","t","p","u","t","_","y","e","a","r">>}>>,
       <<"both", {<<"b","o","t","h">>}>>,
       <<"all", {<<"a","l","l">>, <<"n","o","n","e">>, <<>>}>> >>

\* a variant that lower-cases without stripping
NormalizeNoStrip(option) ==
    LowerStr(IF option = None \/ option[1] = <<>> THEN <<"a","l","l">> ELSE option[1])

\* (option or "all").strip().lower(); option is an Optional string
NormalizeOption(option) ==
    LowerStr(Strip(IF option = None \/ option[1] = <<>> THEN <<"a","l","l">> ELSE option[1]))

\* the canonical key of opt: the first entry of valid_opts listing it, else None
CanonOf(opt) ==
    IF \E k \in 1..Len(ValidOpts) : opt \in ValidOpts[k][2]
    THEN Some(ValidOpts[CHOOSE k \in 1..Len(ValidOpts) :
                          /\ opt \in ValidOpts[k][2]
                          /\ \A j \in 1..(k - 1) : opt \notin ValidOpts[j][2]][1])
    ELSE None

\* a variant whose inout test accepts a scenario with either file
KeepsEitherFile(canon, config) ==
    LET has_inout == config.input_path # None \/ config.output_path # None
        has_yearly == config.output_year_path # <<>>
    IN  IF canon = "both" /\ has_inout /\ has_yearly THEN TRUE
        ELSE IF canon = "inout" /\ has_inout THEN TRUE
        ELSE IF canon = "yearly" /\ has_yearly THEN TRUE
        ELSE IF canon = "all" THEN TRUE
        ELSE FALSE

\* a variant whose "both" is met by a scenario with either capability
KeepsBothLoosely(canon, config) ==
    LET has_inout == config.input_path # None /\ config.output_path # None
        has_yearly == config.output_year_path # <<>>
    IN  IF canon = "both" /\ (has_inout \/ has_yearly) THEN TRUE
        ELSE IF canon = "inout" /\ has_inout THEN TRUE
        ELSE IF canon = "yearly" /\ has_yearly THEN TRUE
        ELSE IF canon = "all" THEN TRUE
        ELSE FALSE

\* the if/elif chain of the filter loop: whether config is put in filtered
Keeps(canon, config) ==
    LET has_inout == config.input_path # None /\ config.output_path # None
        has_yearly == config.output_year_path # <<>>
    IN  IF canon = "both" /\ has_inout /\ has_yearly THEN TRUE
        ELSE IF canon = "inout" /\ has_inout THEN TRUE
        ELSE IF canon = "yearly" /\ has_yearly THEN TRUE
        ELSE IF canon = "all" THEN TRUE
        ELSE FALSE

RECURSIVE FilterFrom(_, _, _, _)
FilterFrom(scens, canon, i, filtered) ==
    IF i > Len(scens) THEN filtered
    ELSE FilterFrom(scens, canon, i + 1,
                    IF Keeps(canon, scens[i][2])
                    THEN DictSet(filtered, scens[i][1], scens[i][2])
                    ELSE filtered)

\* a variant in which "all" brings back every scenario under root_path
FilteredRestoringAll(scens, canon) ==
    IF canon = "all" THEN DiscoverScenarios(fs).scenarios
    ELSE FilterFrom(scens, canon, 1, <<>>)

\* the dict filtered that replaces self.scenarios
Filtered(scens, canon) == FilterFrom(scens, canon, 1, <<>>)

\* the option strings filter_scenarios is called with
Options ==
    { None, Some(<<>>), Some(<<"a","l","l">>), Some(<<" ","B","O","T","H"," ">>), Some(<<"b","o","t","h">>),
      Some(<<"i","n","o","u","t">>), Some(<<"I","O">>), Some(<<"Y","e","a","r","l","y","\t">>),
      Some(<<"b","o","g","u","s">>), Some(<<"b"," ","o","t","h">>), Some(<<" "," ">>) }

\* filter_scenarios(option) for an option of opts
FilterWith(opts) ==
    /\ pc = "manager_ready"
    /\ \E option \in opts :
          LET canon == CanonOf(NormalizeOption(option)) IN
          IF canon = None
          THEN /\ lastOp' = [NoOp EXCEPT !.op = "filter_scenarios",
                                         !.option = option,
                                         !.error = "ValueError"]
               /\ UNCHANGED <<scenarios, scenarios_names>>
          ELSE /\ scenarios' = Filtered(scenarios, canon[1])
               /\ scenarios_names' = ScenariosNamesOf(scenarios')
               /\ lastOp' = [NoOp EXCEPT !.op = "filter_scenarios",
                                         !.option = option]
    /\ UNCHANGED <<pc, cfg, fs, is_single_scenario, output_years, dataVars>>

FilterScenarios == FilterWith(Options)

DigitList == <<"0","1","2","3","4","5","6","7","8","9">>
DigitValue(c) == (CHOOSE i \in 1..10 : DigitList[i] = c) - 1

\* str < str for strings of digits: the first differing character decides,
\* a proper prefix is smaller
RECURSIVE StrLess(_, _)
StrLess(a, b) ==
    IF b = <<>> THEN FALSE
    ELSE IF a = <<>> THEN TRUE
    ELSE IF Head(a) # Head(b) THEN DigitValue(Head(a)) < DigitValue(Head(b))
    ELSE StrLess(Tail(a), Tail(b))

\* sorted(S)
RECURSIVE Sorted(_)
Sorted(S) ==
    IF S = {} THEN <<>>
    ELSE LET least == CHOOSE x \in S : \A y \in S \ {x} : StrLess(x, y)
         IN  <<least>> \o Sorted(S \ {least})

\* set.intersection(*year_sets)
RECURSIVE IntersectFrom(_, _, _)
IntersectFrom(year_sets, i, acc) ==
    IF i > Len(year_sets) THEN acc
    ELSE IntersectFrom(year_sets, i + 1, acc \cap year_sets[i])

\* a variant that collects the years of any scenario
AnyOutputYears(scens) ==
    IF scens = <<>> THEN <<>>
    ELSE Sorted(UNION {Range(scens[i][2].output_years) : i \in 1..Len(scens)})

\* get_common_output_years
CommonOutputYears(scens) ==
    IF scens = <<>> THEN <<>>
    ELSE LET year_sets == [i \in 1..Len(scens) |-> Range(scens[i][2].output_years)]
             common_years == IF year_sets # <<>>
                             THEN IntersectFrom(year_sets, 2, year_sets[1])
                             ELSE {}
         IN  Sorted(common_years)

GetCommonOutputYears ==
    /\ pc = "manager_ready"
    /\ lastOp' = [NoOp EXCEPT !.op = "get_common_output_years",
                              !.result = CommonOutputYears(scenarios)]
    /\ UNCHANGED <<pc, cfg, registryVars, dataVars>>

Next ==
    \/ ConstructManager
    \/ FilterScenarios
    \/ GetCommonOutputYears

Spec == InitManager /\ [][Next]_vars

---------------------------------------------------------------------------
(* The gdx files a DataManager reads *)

GdxRoles ==
    << Bx \o W_output \o W_gdx, Bx \o W_BM \o W_gdx, Bx \o W_Basis \o W_gdx >>

DataLayouts == {GdxBothOneYear, GdxRoles, GdxYearly}

\* the scenario folders under root_path, each with balopt.opt
RECURSIVE DataChildSeqs(_)
DataChildSeqs(n) ==
    IF n = 0 THEN {<<>>}
    ELSE LET shorter == DataChildSeqs(n - 1)
         IN  shorter \cup
             { Append(s, MkEntry(n, [is_dir |-> TRUE, ctrl |-> "balopt.opt",
                                     gdx |-> g])) :
                 s \in {t \in shorter : Len(t) = n - 1}, g \in DataLayouts }

DataFileSystems ==
    { [name |-> "root", exists |-> TRUE, is_dir |-> TRUE, ctrl |-> NoCtrl,
       gdx |-> <<>>, children |-> c] : c \in DataChildSeqs(MaxScen) }

GdxPaths(root) ==
    UNION { {MkPath(root.children[i].name, f) : f \in Range(root.children[i].gdx)} :
              i \in 1..Len(root.children) }

\* container.data of a gdx file: a dict symbol -> records, the records None
\* or a frame (a sequence of rows); a row names the file it is stored in
EmptyContainer == <<>>
ContainerX(path) == << <<"X", Some(<<path>>)>>, <<"Z", None>> >>
ContainerY(path) == << <<"X", Some(<<>>)>>, <<"Y", Some(<<path>>)>> >>

\* the contents of the gdx files of root: at most MaxFilled hold symbols
StoresOf(root) ==
    LET paths == GdxPaths(root)
        fills == UNION { [filled -> {"X", "Y"}] :
                           filled \in {f \in SUBSET paths : Cardinality(f) <= MaxFilled} }
    IN  { [p \in paths |->
             IF p \notin DOMAIN fill THEN EmptyContainer
             ELSE IF fill[p] = "X" THEN ContainerX(p) ELSE ContainerY(p)] :
          fill \in fills }

---------------------------------------------------------------------------
(* DataManager: the symbol index *)

\* key_func_map, in the order of the dict literal
KeyFuncOrder == <<"input", "BM", "Basis", "output", "output_year">>

\* the attribute each get_all_*_files reads
RolePath(config, key) ==
    CASE key = "input" -> config.input_path
      [] key = "BM" -> config.BM_path
      [] key = "Basis" -> config.Basis_path
      [] key = "output" -> config.output_path

\* get_all_input_files, get_all_BM_files, get_all_Basis_files,
\* get_all_output_files: dict scenario name -> path
RECURSIVE GetAllFilesFrom(_, _, _, _)
GetAllFilesFrom(scens, key, i, result) ==
    IF i > Len(scens) THEN result
    ELSE GetAllFilesFrom(scens, key, i + 1,
            IF RolePath(scens[i][2], key) # None
            THEN DictSet(result, scens[i][1], RolePath(scens[i][2], key)[1])
            ELSE result)

GetAllFiles(scens, key) == GetAllFilesFrom(scens, key, 1, <<>>)

\* get_all_output_year_files: dict scenario name -> dict year -> path
RECURSIVE GetAllOutputYearFilesFrom(_, _, _)
GetAllOutputYearFilesFrom(scens, i, result) ==
    IF i > Len(scens) THEN result
    ELSE GetAllOutputYearFilesFrom(scens, i + 1,
            IF scens[i][2].output_year_path # <<>>
            THEN DictSet(result, scens[i][1], scens[i][2].output_year_path)
            ELSE result)

GetAllOutputYearFiles(scens) == GetAllOutputYearFilesFrom(scens, 1, <<>>)

\* the files the loops of _symbol_mapping open for key, in order, each with
\* the scenario key its presence entries get: <<name>> or <<name, year>>
RECURSIVE YearVisitsFrom(_, _)
YearVisitsFrom(dict, i) ==
    IF i > Len(dict) THEN <<>>
    ELSE [j \in 1..Len(dict[i][2]) |->
            [scen_key |-> <<dict[i][1], dict[i][2][j][1]>>, path |-> dict[i][2][j][2]]]
         \o YearVisitsFrom(dict, i + 1)

\* a variant in which the yearly files are left out of the scan
VisitsWithoutYearly(scens, key) ==
    IF key = "output_year" THEN <<>>
    ELSE LET dict == GetAllFiles(scens, key)
         IN  [i \in 1..Len(dict) |-> [scen_key |-> <<dict[i][1]>>, path |-> dict[i][2]]]

Visits(scens, key) ==
    IF key = "output_year"
    THEN YearVisitsFrom(GetAllOutputYearFiles(scens), 1)
    ELSE LET dict == GetAllFiles(scens, key)
         IN  [i \in 1..Len(dict) |-> [scen_key |-> <<dict[i][1]>>, path |-> dict[i][2]]]

\* a variant that takes a frame without rows for records
HasRecordsNotNone(records) == records # None

\* symbol is not None and not symbol.empty
HasRecords(records) == records # None /\ records[1] # <<>>

\* _verify_symbol: what it prints (None or a warning) and what it returns
VerifySymbol(records, symbol_name, key, s2f) ==
    [ printed |-> IF symbol_name \in DictKeys(s2f) /\ DictGet(s2f, symbol_name) # key
                  THEN Some(<<symbol_name, DictGet(s2f, symbol_name), key>>)
                  ELSE None,
      result |-> HasRecords(records) ]

\* a variant in which the role a symbol was first found under stays
RecordRoleKeepFirst(s2f, symbol_name, key) ==
    IF symbol_name \in DictKeys(s2f) THEN s2f ELSE DictSet(s2f, symbol_name, key)

\* self._symbol_to_file[symbol_name] = key
RecordRole(s2f, symbol_name, key) == DictSet(s2f, symbol_name, key)

\* the loop over container.data.keys(); idx holds the index being built
RECURSIVE IndexSymbols(_, _, _, _, _)
IndexSymbols(container, j, key, scen_key, idx) ==
    IF j > Len(container) THEN idx
    ELSE LET symbol_name == container[j][1]
             v == VerifySymbol(container[j][2], symbol_name, key, idx.symbol_to_file)
             told == [idx EXCEPT !.diag = @ \o v.printed]
         IN  IndexSymbols(container, j + 1, key, scen_key,
                IF v.result
                THEN [told EXCEPT
                        !.symbol_to_file = RecordRole(@, symbol_name, key),
                        !.symbol_in_scenarios = @ \cup {<<scen_key, symbol_name>>}]
                ELSE told)

\* the loop over the files of one key: each is opened with gt.Container
RECURSIVE IndexVisits(_, _, _, _, _)
IndexVisits(visits, i, key, contents, idx) ==
    IF i > Len(visits) THEN idx
    ELSE IndexVisits(visits, i + 1, key, contents,
            IndexSymbols(contents[visits[i].path], 1, key, visits[i].scen_key,
                         [idx EXCEPT !.opened = Append(@, visits[i].path)]))

RECURSIVE SymbolMappingFrom(_, _, _, _)
SymbolMappingFrom(scens, contents, k, idx) ==
    IF k > Len(KeyFuncOrder) THEN idx
    ELSE SymbolMappingFrom(scens, contents, k + 1,
            IndexVisits(Visits(scens, KeyFuncOrder[k]), 1, KeyFuncOrder[k],
                        contents, idx))

\* _symbol_mapping on the registry's scenarios
SymbolMapping(scens, contents) ==
    SymbolMappingFrom(scens, contents, 1,
        [symbol_to_file |-> <<>>, symbol_in_scenarios |-> {},
         diag |-> <<>>, opened |-> <<>>])

InitData ==
    /\ pc = "manager_new"
    /\ cfg = None
    /\ fs \in DataFileSystems
    /\ stores \in StoresOf(fs)
    /\ scenarios = <<>>
    /\ is_single_scenario = FALSE
    /\ scenarios_names = {}
    /\ output_years = {}
    /\ lastOp = NoOp
    /\ DataIdle

\* DataManager(scenario_manager)
ConstructDataManager ==
    /\ pc = "manager_ready"
    /\ dm_pc = "data_new"
    /\ dm_scenarios' = scenarios
    /\ dm_scenarios_names' = scenarios_names
    /\ dm_output_years' = output_years
    /\ LET idx == SymbolMapping(scenarios, stores) IN
          /\ symbol_to_file' = idx.symbol_to_file
          /\ symbol_in_scenarios' = idx.symbol_in_scenarios
          /\ diag' = idx.diag
          /\ opened' = idx.opened
    /\ key_data_map' = EmptyDataMap
    /\ dm_pc' = "data_ready"
    /\ lastOp' = [NoOp EXCEPT !.op = "DataManager"]
    /\ UNCHANGED <<pc, cfg, registryVars, stores, loads, calls, answer>>

\* filter_scenarios("inout") and filter_scenarios("yearly"); the other
\* option strings are exercised under Spec
NarrowingOptions == {Some(<<"i","n","o","u","t">>), Some(<<"y","e","a","r","l","y">>)}

FilterNarrowing == FilterWith(NarrowingOptions)

NextData ==
    \/ ConstructManager
    \/ FilterNarrowing
    \/ ConstructDataManager

SpecData == InitData /\ [][NextData]_vars

---------------------------------------------------------------------------
(* DataLoader and DataManager.get_symbol *)

MaxQueryScen == 3
MaxQueries == 2

\* ScenarioConfig.key_path_map[key] for a key other than output_year
KeyPath(config, key) ==
    CASE key = "BM" -> config.BM_path
      [] key = "Basis" -> config.Basis_path
      [] key = "input" -> config.input_path
      [] key = "output" -> config.output_path

\* symbol.records as a DataFrame: one column, one row for each record
RecordsFrame(records) ==
    [columns |-> <<"Value">>,
     rows |-> [i \in 1..Len(records) |-> <<records[i]>>]]

\* DataLoader.__post_init__: gt.Container(str(path)) finds a file to load
\* unless path is None
LoaderOpens(path) == path # None

\* DataLoader.get_symbol on the container of an opened file
LoaderGetSymbol(container, symbol_name) ==
    IF symbol_name \notin DictKeys(container)
    THEN [raised |-> "container", frame |-> EmptyFrame]
    ELSE LET records == DictGet(container, symbol_name) IN
         [raised |-> "none",
          frame |-> IF records # None THEN RecordsFrame(records[1])
                    ELSE EmptyFrame]

\* the cell of row under column c of the frame df
Cell(df, row, c) == row[CHOOSE k \in 1..Len(df.columns) : df.columns[k] = c]

\* df['Scenario'] = scen
\* df = df[['Scenario'] + [c for c in df.columns.tolist() if c != 'Scenario']]
TagScenario(df, scen) ==
    LET others == SelectSeq(df.columns, LAMBDA c : c # "Scenario") IN
    [columns |-> <<"Scenario">> \o others,
     rows |-> [i \in 1..Len(df.rows) |->
                 <<scen>> \o [k \in 1..Len(others) |-> Cell(df, df.rows[i], others[k])]]]

\* the columns of pd.concat(frames): every column, in order of appearance
RECURSIVE ConcatColumns(_, _, _)
ConcatColumns(frames, i, columns) ==
    IF i > Len(frames) THEN columns
    ELSE ConcatColumns(frames, i + 1,
            columns \o SelectSeq(frames[i].columns,
                                 LAMBDA c : c \notin Range(columns)))

\* the rows of pd.concat(frames), a cell NaN where a frame lacks the column
RECURSIVE ConcatRows(_, _, _)
ConcatRows(frames, i, columns) ==
    IF i > Len(frames) THEN <<>>
    ELSE [r \in 1..Len(frames[i].rows) |->
            [k \in 1..Len(columns) |->
               IF columns[k] \in Range(frames[i].columns)
               THEN Cell(frames[i], frames[i].rows[r], columns[k])
               ELSE "NaN"]]
         \o ConcatRows(frames, i + 1, columns)

\* pd.concat(frames, ignore_index=True) if frames else pd.DataFrame()
Concat(frames) ==
    IF frames = <<>> THEN EmptyFrame
    ELSE LET columns == ConcatColumns(frames, 1, <<>>) IN
         [columns |-> columns, rows |-> ConcatRows(frames, 1, columns)]

\* the orders in which iterating over the set S can yield its elements
Orders(S) == {o \in DistinctSeqs(S, Cardinality(S)) : Len(o) = Cardinality(S)}

\* the else branch of the loop of get_symbol, for the scenario keys order
\* yields; st holds key_data_map, the DataLoaders constructed, the frames
\* collected and what was raised.  scens is DataManager.scenarios, contents
\* the files, many is len(scenarios) > 1.
RECURSIVE CollectFrom(_, _, _, _, _, _, _, _)
CollectFrom(scens, contents, order, i, key, symbol_name, many, st) ==
    IF i > Len(order) \/ st.raised # "none" THEN st
    ELSE
      LET scen_name == order[i]
          held == {e \in st.key_data_map[key] : e[1] = scen_name}
          scen_config == DictGet(scens, scen_name[1])
          path == IF key = "output_year"
                  THEN Some(DictGet(scen_config.output_year_path, scen_name[2]))
                  ELSE KeyPath(scen_config, key)
          load == [key |-> key, scen_key |-> scen_name, path |-> path]
          loaded ==
            IF held # {} THEN st
            ELSE IF LoaderOpens(path)
            THEN [st EXCEPT !.key_data_map[key] = @ \cup {<<scen_name, path[1]>>},
                            !.loads = @ (+) SetToBag({load})]
            ELSE [st EXCEPT !.loads = @ (+) SetToBag({load}), !.raised = "open"]
      IN  IF loaded.raised # "none" THEN loaded
          ELSE
            LET data_loader == CHOOSE e \in loaded.key_data_map[key] : e[1] = scen_name
                got == LoaderGetSymbol(contents[data_loader[2]], symbol_name)
                df == IF many THEN TagScenario(got.frame, scen_name[1])
                      ELSE got.frame
            IN  IF got.raised # "none"
                THEN [loaded EXCEPT !.raised = got.raised]
                ELSE CollectFrom(scens, contents, order, i + 1, key, symbol_name,
                                 many, [loaded EXCEPT !.frames = Append(@, df)])

\* the exception a call that raised at a given place ends with
ErrorOf(raised) ==
    CASE raised = "none" -> "none"
      [] raised = "open" -> "Exception"
      [] OTHER -> "KeyError"

\* DataManager.get_symbol(symbol_name, scenarios): scenarios is None, or a
\* str or a list, both carried as a list of names.  A set is iterated in an
\* order the code does not control; a key the presence test rejects only
\* prints its message, so the order is chosen for the keys that pass it.
GetSymbolWith(symbols, args) ==
    /\ dm_pc = "data_ready"
    /\ calls < MaxQueries
    /\ \E symbol_name \in symbols, arg \in args :
         LET requested == IF arg = None THEN <<>> ELSE arg[1].names
             missing == SelectSeq(requested, LAMBDA s : s \notin dm_scenarios_names)
             names == IF arg = None THEN dm_scenarios_names ELSE Range(requested)
             asked == [NoAnswer EXCEPT !.symbol_name = symbol_name,
                                       !.scenarios = arg]
         IN  IF missing # <<>>
             THEN /\ answer' = [asked EXCEPT !.raised = "scenarios",
                                             !.missing = missing]
                  /\ lastOp' = [NoOp EXCEPT !.op = "get_symbol",
                                            !.error = ErrorOf("scenarios")]
                  /\ UNCHANGED <<key_data_map, loads>>
             ELSE IF symbol_name \notin DictKeys(symbol_to_file)
             THEN /\ answer' = [asked EXCEPT !.raised = "symbol", !.names = names]
                  /\ lastOp' = [NoOp EXCEPT !.op = "get_symbol",
                                            !.error = ErrorOf("symbol")]
                  /\ UNCHANGED <<key_data_map, loads>>
             ELSE LET key == DictGet(symbol_to_file, symbol_name)
                      scen_keys ==
                        IF key = "output_year"
                        THEN {<<s, y>> : s \in names, y \in dm_output_years}
                        ELSE {<<s>> : s \in names}
                      passing == {k \in scen_keys :
                                     <<k, symbol_name>> \in symbol_in_scenarios}
                  IN  \E order \in Orders(passing) :
                        LET st == CollectFrom(dm_scenarios, stores, order, 1, key,
                                      symbol_name, Cardinality(scen_keys) > 1,
                                      [key_data_map |-> key_data_map,
                                       loads |-> loads, frames |-> <<>>,
                                       raised |-> "none"])
                        IN  /\ key_data_map' = st.key_data_map
                            /\ loads' = st.loads
                            /\ answer' =
                                 [asked EXCEPT
                                    !.raised = st.raised,
                                    !.names = names,
                                    !.scen_keys = scen_keys,
                                    !.skipped = scen_keys \ passing,
                                    !.frame = IF st.raised = "none"
                                              THEN Concat(st.frames)
                                              ELSE EmptyFrame]
                            /\ lastOp' = [NoOp EXCEPT !.op = "get_symbol",
                                                      !.error = ErrorOf(st.raised)]
    /\ calls' = calls + 1
    /\ UNCHANGED <<pc, cfg, registryVars, stores, indexVars>>

\* the symbols asked for: Z is stored without records everywhere
QuerySymbols == {"X", "Y", "Z"}

\* the scenarios argument: None, a str, a list
QueryScenarios ==
    { None,
      Some([is_str |-> TRUE, names |-> <<"A">>]),
      Some([is_str |-> FALSE, names |-> <<"A", "B", "C">>]) }

GetSymbol == GetSymbolWith(QuerySymbols, QueryScenarios)

\* the *.gdx files of a scenario without results
GdxInputOnly == << Bx \o W_input \o W_gdx >>

\* a scenario folder: its files and what each holds, "X" for ContainerX,
\* "Y" for ContainerY, "-" for a file without symbols
ScenarioKinds ==
    { [gdx |-> GdxBothOneYear, holds |-> <<"Y", "X", "-">>],
      [gdx |-> GdxRoles, holds |-> <<"X", "-", "-">>],
      [gdx |-> GdxYearly, holds |-> <<"Y", "-">>],
      [gdx |-> GdxInputOnly, holds |-> <<"X">>] }

RECURSIVE KindSeqs(_)
KindSeqs(n) ==
    IF n = 0 THEN {<<>>}
    ELSE LET shorter == KindSeqs(n - 1)
         IN  shorter \cup
             { Append(s, k) : s \in {t \in shorter : Len(t) = n - 1},
                              k \in ScenarioKinds }

\* root_path with one scenario folder for each kind, and the files' contents
WorldOf(kinds) ==
    LET root == [name |-> "root", exists |-> TRUE, is_dir |-> TRUE,
                 ctrl |-> NoCtrl, gdx |-> <<>>,
                 children |-> [i \in 1..Len(kinds) |->
                     MkEntry(i, [is_dir |-> TRUE, ctrl |-> "balopt.opt",
                                 gdx |-> kinds[i].gdx])]]
        Holds(p) ==
            LET i == CHOOSE i \in 1..Len(kinds) : DirName(i) = p[1]
                j == CHOOSE j \in 1..Len(kinds[i].gdx) : kinds[i].gdx[j] = p[2]
            IN  kinds[i].holds[j]
    IN  [fs |-> root,
         stores |-> [p \in GdxPaths(root) |->
                       CASE Holds(p) = "X" -> ContainerX(p)
                         [] Holds(p) = "Y" -> ContainerY(p)
                         [] OTHER -> EmptyContainer]]

InitQuery ==
    /\ pc = "manager_new"
    /\ cfg = None
    /\ \E kinds \in KindSeqs(MaxQueryScen) :
          /\ fs = WorldOf(kinds).fs
          /\ stores = WorldOf(kinds).stores
    /\ scenarios = <<>>
    /\ is_single_scenario = FALSE
    /\ scenarios_names = {}
    /\ output_years = {}
    /\ lastOp = NoOp
    /\ DataIdle

\* filter_scenarios("inout")
FilterInOut == FilterWith({Some(<<"i","n","o","u","t">>)})

NextQuery ==
    \/ ConstructManager
    \/ FilterInOut
    \/ ConstructDataManager
    \/ GetSymbol

SpecQuery == InitQuery /\ [][NextQuery]_vars

---------------------------------------------------------------------------
(* Classification claims, checked under SpecClassify *)

PatternNames == {"output_year", "output", "input", "BM", "Basis"}

PatternMatches(p, filename) ==
    CASE p = "output_year" -> MatchOutputYear(filename)
      [] p = "output" -> MatchOutput(filename)
      [] p = "input" -> MatchInput(filename)
      [] p = "BM" -> MatchBM(filename)
      [] p = "Basis" -> MatchBasis(filename)

\* the first pattern of order that filename matches, else "other"
ClassifyIn(order, filename) ==
    IF \E i \in 1..Len(order) : PatternMatches(order[i], filename)
    THEN order[CHOOSE i \in 1..Len(order) :
                 /\ PatternMatches(order[i], filename)
                 /\ \A j \in 1..(i - 1) : ~PatternMatches(order[j], filename)]
    ELSE "other"

StatedOrder == <<"output_year", "output", "input", "BM", "Basis">>

PatternOrders == {o \in DistinctSeqs(PatternNames, 5) : Len(o) = 5}

\* a slot is <<role, year>>, the year empty except for the yearly role
SlotFor(filename) ==
    LET r == ClassifyIn(StatedOrder, filename) IN
    <<r, IF r = "output_year" THEN YearGroup(filename) ELSE <<>> >>

\* the slots of config c that hold path p
SlotsHolding(c, p) ==
    {<<"BM", <<>> >> : x \in {1} \cap {IF c.BM_path = Some(p) THEN 1 ELSE 0}}
    \cup {<<"Basis", <<>> >> : x \in {1} \cap {IF c.Basis_path = Some(p) THEN 1 ELSE 0}}
    \cup {<<"input", <<>> >> : x \in {1} \cap {IF c.input_path = Some(p) THEN 1 ELSE 0}}
    \cup {<<"output", <<>> >> : x \in {1} \cap {IF c.output_path = Some(p) THEN 1 ELSE 0}}
    \cup {<<"output_year", y>> : y \in {k \in DictKeys(c.output_year_path) :
                                        DictGet(c.output_year_path, k) = p}}
    \cup {<<"other", <<>> >> : k \in {k \in DictKeys(c.output_other_path) :
                                        DictGet(c.output_other_path, k) = p}}

\* a later candidate file goes to the same single-valued slot or the same year
Replaced(files, i) ==
    /\ SlotFor(files[i][1])[1] # "other"
    /\ \E j \in (i + 1)..Len(files) : SlotFor(files[j][1]) = SlotFor(files[i][1])

\* C1 as stated: every candidate file appears in exactly one slot, the one
\* first-match-wins chooses, also when two files match the same role or year.
C1_EveryFileInItsSlot ==
    cfg # None =>
        LET c == cfg[1] IN
        \A i \in 1..Len(c.gdx_files) :
            SlotsHolding(c, c.gdx_files[i][2]) = {SlotFor(c.gdx_files[i][1])}

\* C1 amended: every candidate file is classified by first-match-wins (yearly
\* pattern, output, input, BM, Basis suffix, else Other) and appears in that
\* slot and no other, unless a later candidate file is classified into the
\* same role slot or the same year: then it appears in no slot at all.
C1_LastFileHoldsSlot ==
    cfg # None =>
        LET c == cfg[1] IN
        \A i \in 1..Len(c.gdx_files) :
            SlotsHolding(c, c.gdx_files[i][2]) =
                IF Replaced(c.gdx_files, i) THEN {}
                ELSE {SlotFor(c.gdx_files[i][1])}

\* two files of one role and one of another: the first is replaced
C1_Witness ==
    /\ cfg # None
    /\ Len(cfg[1].gdx_files) = 3
    /\ Replaced(cfg[1].gdx_files, 1)
    /\ SlotFor(cfg[1].gdx_files[1][1])[1] = "output"
    /\ ~Replaced(cfg[1].gdx_files, 2)
    /\ SlotFor(cfg[1].gdx_files[3][1])[1] = "output_year"

\* <base>-output-<YYYY>.gdx with a non-empty base, as written (lower case)
IsYearlyForm(filename) ==
    LET n == Len(filename) IN
    /\ n >= 17
    /\ SubSeq(filename, n - 3, n) = W_gdx
    /\ \A i \in (n - 7)..(n - 4) : filename[i] \in Digits
    /\ SubSeq(filename, n - 15, n - 8) = W_output \o Dash

\* the file names every order of the pattern checks classifies as yearly
YearlyInEveryOrder ==
    {f \in Filenames : \A o \in PatternOrders : ClassifyIn(o, f) = "output_year"}

\* C2: a file named <base>-output-<YYYY>.gdx is stored under year YYYY, is
\* never the plain Output file, and every order of the pattern checks
\* classifies it as yearly.
C2_YearlyNeverOutput ==
    cfg # None =>
        LET c == cfg[1] IN
        \A i \in 1..Len(c.gdx_files) :
            IsYearlyForm(c.gdx_files[i][1]) =>
                /\ YearGroup(c.gdx_files[i][1]) \in DictKeys(c.output_year_path)
                /\ c.output_path # Some(c.gdx_files[i][2])
                /\ SlotsHolding(c, c.gdx_files[i][2]) \subseteq
                       {<<"output_year", YearGroup(c.gdx_files[i][1])>>}
                /\ c.gdx_files[i][1] \in YearlyInEveryOrder

\* a yearly file constructed together with a plain output file
C2_Witness ==
    /\ cfg # None
    /\ \E i, j \in 1..Len(cfg[1].gdx_files) :
          /\ IsYearlyForm(cfg[1].gdx_files[i][1])
          /\ cfg[1].output_year_path = <<<<Y2030, cfg[1].gdx_files[i][2]>>>>
          /\ cfg[1].output_path = Some(cfg[1].gdx_files[j][2])

\* the roles of the slots of c that hold p
RolesHolding(c, p) == {s[1] : s \in SlotsHolding(c, p)}

\* C3 as stated: two file names that differ only in letter case are
\* classified into the same role.
C3_CaseInsensitiveRoles ==
    cfg # None =>
        LET c == cfg[1] IN
        \A i, j \in 1..Len(c.gdx_files) :
            LowerStr(c.gdx_files[i][1]) = LowerStr(c.gdx_files[j][1]) =>
                RolesHolding(c, c.gdx_files[i][2]) = RolesHolding(c, c.gdx_files[j][2])

---------------------------------------------------------------------------
(* Registry claims, checked under Spec *)

HasControlFile(folder) == folder.is_dir /\ folder.ctrl # NoCtrl

ScenarioFoldersBelow(root) ==
    {root.children[i].name : i \in {j \in 1..Len(root.children) :
                                      HasControlFile(root.children[j])}}

FoldersWithoutControlFile(root) ==
    {root.children[i].name : i \in {j \in 1..Len(root.children) :
          root.children[j].is_dir /\ root.children[j].ctrl = NoCtrl}}

\* C4: after discovery, a root that holds the control file is the only
\* scenario (is_single_scenario true) whatever its subfolders are; otherwise
\* the registry holds exactly the subfolders with a control file, and every
\* subfolder without one was warned about and nothing was raised.
C4_Discovery ==
    (lastOp.op = "ScenarioManager" /\ fs.exists /\ fs.is_dir) =>
        /\ pc = "manager_ready"
        /\ lastOp.error = "none"
        /\ IF HasControlFile(fs)
           THEN /\ is_single_scenario
                /\ DictKeyList(scenarios) = <<fs.name>>
                /\ lastOp.warned = <<>>
           ELSE /\ ~is_single_scenario
                /\ DictKeys(scenarios) = ScenarioFoldersBelow(fs)
                /\ Len(scenarios) = Cardinality(ScenarioFoldersBelow(fs))
                /\ Range(lastOp.warned) = FoldersWithoutControlFile(fs)

\* a root that is a scenario and has a scenario folder below it
C4_Witness ==
    /\ lastOp.op = "ScenarioManager"
    /\ pc = "manager_ready"
    /\ is_single_scenario
    /\ ScenarioFoldersBelow(fs) # {}
    /\ FoldersWithoutControlFile(fs) # {}

\* the criterion each option string stands for, or "invalid"
StatedCriterion ==
    { <<None, "all">>, <<Some(<<>>), "all">>, <<Some(<<"a","l","l">>), "all">>,
      <<Some(<<" ","B","O","T","H"," ">>), "both">>, <<Some(<<"b","o","t","h">>), "both">>,
      <<Some(<<"i","n","o","u","t">>), "inout">>, <<Some(<<"I","O">>), "inout">>,
      <<Some(<<"Y","e","a","r","l","y","\t">>), "yearly">>,
      <<Some(<<"b","o","g","u","s">>), "invalid">>, <<Some(<<"b"," ","o","t","h">>), "invalid">>,
      <<Some(<<" "," ">>), "all">> }

CriterionOf(option) == (CHOOSE e \in StatedCriterion : e[1] = option)[2]

Satisfies(criterion, config) ==
    LET inout == config.input_path # None /\ config.output_path # None
        yearly == Len(config.output_year_path) > 0
    IN  CASE criterion = "all" -> TRUE
          [] criterion = "inout" -> inout
          [] criterion = "yearly" -> yearly
          [] criterion = "both" -> inout /\ yearly

\* the entries of scens whose scenario satisfies criterion, in their order
Satisfying(scens, criterion) ==
    LET Test(e) == Satisfies(criterion, e[2]) IN SelectSeq(scens, Test)

FilterStep == pc = "manager_ready" /\ lastOp'.op = "filter_scenarios"

\* C5: no filter call adds a scenario, and filter("all") leaves the
\* registry as it is.
C5_FilterMonotonic ==
    [][ FilterStep =>
          /\ DictKeys(scenarios') \subseteq DictKeys(scenarios)
          /\ scenarios_names' \subseteq scenarios_names
          /\ (CriterionOf(lastOp'.option) = "all" => scenarios' = scenarios) ]_vars

\* filter("all") was called on a registry an earlier filter had narrowed
C5_Witness ==
    /\ lastOp.op = "filter_scenarios"
    /\ lastOp.option = Some(<<"a","l","l">>)
    /\ scenarios # <<>>
    /\ Len(scenarios) < Cardinality(ScenarioFoldersBelow(fs))

\* C6: a filter call with a valid criterion replaces the scenario set with
\* exactly the current scenarios that satisfy it.
C6_FilterExact ==
    [][ (FilterStep /\ lastOp'.error = "none") =>
          scenarios' = Satisfying(scenarios, CriterionOf(lastOp'.option)) ]_vars

\* filter("both") on three scenarios of which exactly one has both
C6_Witness ==
    /\ lastOp.op = "filter_scenarios"
    /\ lastOp.option = Some(<<"b","o","t","h">>)
    /\ Cardinality(ScenarioFoldersBelow(fs)) = 3
    /\ ~HasControlFile(fs)
    /\ Len(scenarios) = 1

\* C7: an unrecognized option raises ValueError and leaves scenarios and
\* scenarios_names as they were; an option is recognized whatever its letter
\* case and surrounding whitespace.
C7_FilterInvalidOption ==
    [][ FilterStep =>
          IF CriterionOf(lastOp'.option) = "invalid"
          THEN /\ lastOp'.error = "ValueError"
               /\ scenarios' = scenarios
               /\ scenarios_names' = scenarios_names
          ELSE /\ lastOp'.error = "none"
               /\ DictKeys(scenarios') =
                    DictKeys(Satisfying(scenarios, CriterionOf(lastOp'.option))) ]_vars

\* an unknown option was refused on a registry of several scenarios
C7_Witness ==
    /\ lastOp.op = "filter_scenarios"
    /\ lastOp.option = Some(<<"b","o","g","u","s">>)
    /\ lastOp.error = "ValueError"
    /\ Len(scenarios) >= 2
    /\ scenarios_names = DictKeys(scenarios)

\* C8: once constructed, scenarios_names is the key set of scenarios.
C8_NamesAreKeys ==
    pc = "manager_ready" => scenarios_names = DictKeys(scenarios)

\* a filter call narrowed the registry to some but not all scenarios
C8_Witness ==
    /\ lastOp.op = "filter_scenarios"
    /\ lastOp.error = "none"
    /\ scenarios_names # {}
    /\ Cardinality(scenarios_names) < Cardinality(ScenarioFoldersBelow(fs))

YearSetsOf(scens) == {DictKeys(scens[i][2].output_year_path) : i \in 1..Len(scens)}

\* C9: get_common_output_years returns the years every scenario of the
\* registry has a yearly file for, in ascending order; none for an empty
\* registry and none when some scenario has no yearly file.
C9_CommonYears ==
    lastOp.op = "get_common_output_years" =>
        LET sets == YearSetsOf(scenarios) IN
        /\ Range(lastOp.result) =
             IF scenarios = <<>> THEN {}
             ELSE {y \in UNION sets : \A ys \in sets : y \in ys}
        /\ ({} \in sets => lastOp.result = <<>>)
        /\ \A i \in 1..(Len(lastOp.result) - 1) :
             StrLess(lastOp.result[i], lastOp.result[i + 1])

\* three scenarios with different year sets that share one year
C9_Witness ==
    /\ lastOp.op = "get_common_output_years"
    /\ lastOp.result = <<Y2031>>
    /\ Cardinality(YearSetsOf(scenarios)) = 3

---------------------------------------------------------------------------
(* Index claims, checked under SpecData *)

StatedRoleOrder == <<"input", "BM", "Basis", "output", "output_year">>

AllSymbols == {"X", "Y", "Z"}

\* the files the scenarios of scens hold under role
StoresUnder(scens, role) ==
    UNION { LET c == scens[i][2] IN
            CASE role = "input" -> Range(c.input_path)
              [] role = "BM" -> Range(c.BM_path)
              [] role = "Basis" -> Range(c.Basis_path)
              [] role = "output" -> Range(c.output_path)
              [] role = "output_year" -> DictValues(c.output_year_path)
            : i \in 1..Len(scens) }

\* symbol has at least one record in the file at path
HasRecordIn(path, symbol) ==
    \E j \in 1..Len(stores[path]) :
        /\ stores[path][j][1] = symbol
        /\ stores[path][j][2] # None
        /\ Len(stores[path][j][2][1]) > 0

\* the positions, in the stated order, of the roles symbol has records under
RolesWithRecords(symbol) ==
    {k \in 1..Len(StatedRoleOrder) :
        \E p \in StoresUnder(dm_scenarios, StatedRoleOrder[k]) : HasRecordIn(p, symbol)}

Largest(S) == CHOOSE k \in S : \A j \in S : j <= k

\* C10: after the index is built, a symbol is a key of symbol_to_file iff it
\* has a record in some store of some scenario, it is a key once, and its
\* role is the last one, in the order input, BM, Basis, output, output_year,
\* under which it has a record.
C10_LastRoleWins ==
    dm_pc = "data_ready" =>
        /\ Len(symbol_to_file) = Cardinality(DictKeys(symbol_to_file))
        /\ DictKeys(symbol_to_file) =
             {sym \in AllSymbols : RolesWithRecords(sym) # {}}
        /\ \A sym \in DictKeys(symbol_to_file) :
             DictGet(symbol_to_file, sym) =
                StatedRoleOrder[Largest(RolesWithRecords(sym))]

\* X has records under input and under output, Y under one role, and Z is
\* stored without records
C10_Witness ==
    /\ dm_pc = "data_ready"
    /\ RolesWithRecords("X") = {1, 4}
    /\ DictGet(symbol_to_file, "X") = "output"
    /\ "Y" \in DictKeys(symbol_to_file)
    /\ "Z" \notin DictKeys(symbol_to_file)

\* the files a scenario holds under the roles input, BM, Basis, output
RoleStoresOf(config) ==
    Range(config.input_path) \cup Range(config.BM_path)
    \cup Range(config.Basis_path) \cup Range(config.output_path)

\* <<name>> with every symbol that has a record in a role store of name
NamePresence(scens) ==
    UNION { { <<<<scens[i][1]>>, sym>> :
                sym \in {s \in AllSymbols :
                           \E p \in RoleStoresOf(scens[i][2]) : HasRecordIn(p, s)} } :
            i \in 1..Len(scens) }

\* <<name, year>> with every symbol that has a record in that yearly store
YearPresence(scens) ==
    UNION { UNION { { <<<<scens[i][1], y>>, sym>> :
                        sym \in {s \in AllSymbols :
                            HasRecordIn(DictGet(scens[i][2].output_year_path, y), s)} } :
                    y \in DictKeys(scens[i][2].output_year_path) } :
            i \in 1..Len(scens) }

\* an item stored without a record: no frame, or a frame without rows
StoredWithoutRecord(path, symbol) ==
    \E j \in 1..Len(stores[path]) :
        /\ stores[path][j][1] = symbol
        /\ ~HasRecordIn(path, symbol)

\* C11: after the index is built, the presence set holds (scenario key,
\* symbol) iff the symbol has at least one record in a store of that key: the
\* key is the scenario name for the input, BM, Basis and output stores and
\* (name, year) for a yearly store.  An item without records gives no entry,
\* and every symbol of an entry is a key of symbol_to_file.
C11_PresenceIffRecord ==
    dm_pc = "data_ready" =>
        /\ symbol_in_scenarios =
              NamePresence(dm_scenarios) \cup YearPresence(dm_scenarios)
        /\ \A e \in symbol_in_scenarios : e[2] \in DictKeys(symbol_to_file)

\* entries of both kinds exist, and a role store holds X without a record
\* in a scenario that has no entry for X
C11_Witness ==
    /\ dm_pc = "data_ready"
    /\ \E e \in symbol_in_scenarios : Len(e[1]) = 1
    /\ \E e \in symbol_in_scenarios : Len(e[1]) = 2
    /\ \E i \in 1..Len(dm_scenarios) :
          /\ \E p \in RoleStoresOf(dm_scenarios[i][2]) : StoredWithoutRecord(p, "X")
          /\ <<<<dm_scenarios[i][1]>>, "X">> \notin symbol_in_scenarios

\* every file the registry's scenarios hold under one of the five roles
ReferencedStores(scens) ==
    UNION {StoresUnder(scens, StatedRoleOrder[k]) : k \in 1..Len(StatedRoleOrder)}

\* C19: building the index opens every store the registry refers to (each
\* scenario's input, BM, Basis and output file and each yearly file) exactly
\* once and keeps none of them: after construction no DataLoader is held for
\* any role.
C19_IndexOpensOnceKeepsNone ==
    (dm_pc = "data_ready" /\ lastOp.op = "DataManager") =>
        /\ Range(opened) = ReferencedStores(dm_scenarios)
        /\ Len(opened) = Cardinality(Range(opened))
        /\ \A key \in DOMAIN key_data_map : key_data_map[key] = {}

\* two scenarios were scanned, with files under a yearly and another role
C19_Witness ==
    /\ dm_pc = "data_ready"
    /\ lastOp.op = "DataManager"
    /\ Len(dm_scenarios) = 2
    /\ StoresUnder(dm_scenarios, "output_year") # {}
    /\ StoresUnder(dm_scenarios, "BM") # {}
    /\ Len(opened) >= 4

\* the items the scan meets under role key, file after file
RECURSIVE ItemsOfVisits(_, _, _, _)
ItemsOfVisits(visits, i, key, contents) ==
    IF i > Len(visits) THEN <<>>
    ELSE LET container == contents[visits[i].path] IN
         [j \in 1..Len(container) |->
            [key |-> key, symbol_name |-> container[j][1],
             has_record |-> /\ container[j][2] # None
                            /\ Len(container[j][2][1]) > 0]]
         \o ItemsOfVisits(visits, i + 1, key, contents)

\* the items the scan meets, role after role in the stated order
RECURSIVE ItemsFrom(_, _, _)
ItemsFrom(scens, contents, k) ==
    IF k > Len(StatedRoleOrder) THEN <<>>
    ELSE ItemsOfVisits(Visits(scens, StatedRoleOrder[k]), 1, StatedRoleOrder[k],
                       contents)
         \o ItemsFrom(scens, contents, k + 1)

\* the diagnostics as stated: one for each item that has a record and is
\* recorded under a role other than the one its name holds at that moment
RECURSIVE StatedDiagFrom(_, _, _, _)
StatedDiagFrom(items, i, roles, out) ==
    IF i > Len(items) THEN out
    ELSE LET it == items[i] IN
         IF it.has_record
         THEN StatedDiagFrom(items, i + 1, DictSet(roles, it.symbol_name, it.key),
                IF /\ it.symbol_name \in DictKeys(roles)
                   /\ DictGet(roles, it.symbol_name) # it.key
                THEN Append(out, <<it.symbol_name,
                                   DictGet(roles, it.symbol_name), it.key>>)
                ELSE out)
         ELSE StatedDiagFrom(items, i + 1, roles, out)

\* C20 as stated: a role-collision diagnostic is emitted for an item exactly
\* when the item has at least one record and is recorded under a role that
\* differs from the one symbol_to_file holds for its name; an item without
\* records triggers none.
C20_DiagnosticExactly ==
    dm_pc = "data_ready" =>
        diag = StatedDiagFrom(ItemsFrom(dm_scenarios, stores, 1), 1, <<>>, <<>>)

---------------------------------------------------------------------------
(* Query claims, checked under SpecQuery *)

\* the state right after a get_symbol call: the registry is as it was when
\* the call was made
Queried == lastOp.op = "get_symbol"

\* the names the last call asked for, as a list
AskedList == IF answer.scenarios = None THEN <<>> ELSE answer.scenarios[1].names

\* the names asked for that the registry does not hold
MissingFromRegistry ==
    SelectSeq(AskedList, LAMBDA s : s \notin DictKeys(scenarios))

\* C12 as stated: a query that names a scenario (one name or a list) that is
\* not in the registry fails with the scenarios-not-found KeyError, and the
\* names it lists are exactly the requested names the registry lacks.
C12_ScenarioNotFound ==
    (Queried /\ MissingFromRegistry # <<>>) =>
        /\ answer.raised = "scenarios"
        /\ Range(answer.missing) = Range(MissingFromRegistry)

\* every requested name is in the registry (None requests them all)
AllRequestedValid == MissingFromRegistry = <<>>

\* C13 as stated: with all requested scenarios valid, a query fails with the
\* symbol-not-found KeyError iff the symbol is no key of symbol_to_file, and
\* a symbol that is a key is queried over all scenarios without an error.
C13_SymbolNotFound ==
    (Queried /\ AllRequestedValid) =>
        /\ (answer.raised = "symbol") <=>
              (answer.symbol_name \notin DictKeys(symbol_to_file))
        /\ (answer.symbol_name \in DictKeys(symbol_to_file)
              /\ answer.scenarios = None) => lastOp.error = "none"

\* the scenario keys a query stands for: the requested names, all names of
\* the registry for None, each paired with every year of the registry's year
\* universe when the symbol's role is the yearly one
StatedKeys ==
    LET names == IF answer.scenarios = None THEN DictKeys(scenarios)
                 ELSE Range(AskedList)
    IN  IF DictGet(symbol_to_file, answer.symbol_name) = "output_year"
        THEN {<<s, y>> : s \in names, y \in output_years}
        ELSE {<<s>> : s \in names}

PresentKeys ==
    {k \in StatedKeys : <<k, answer.symbol_name>> \in symbol_in_scenarios}

\* the scenario key of the store at path
KeyOfPath(path) ==
    LET config == DictGet(dm_scenarios, path[1]) IN
    IF path \in DictValues(config.output_year_path)
    THEN <<path[1], CHOOSE y \in DictKeys(config.output_year_path) :
                       DictGet(config.output_year_path, y) = path>>
    ELSE <<path[1]>>

\* the scenario keys whose stores the rows of frame were read from
RowKeys(frame) ==
    {KeyOfPath(Cell(frame, frame.rows[i], "Value")) : i \in 1..Len(frame.rows)}

\* C14 as stated: for a known symbol and valid scenarios the query does not
\* raise, it skips the scenario keys without a presence entry, its rows come
\* from exactly the requested keys that have one, and it returns an empty
\* table when none has.
C14_PartialCoverage ==
    (Queried /\ AllRequestedValid
       /\ answer.symbol_name \in DictKeys(symbol_to_file)) =>
        /\ lastOp.error = "none"
        /\ answer.skipped = StatedKeys \ PresentKeys
        /\ RowKeys(answer.frame) = PresentKeys
        /\ PresentKeys = {} => answer.frame = EmptyFrame

\* the symbol asked for has a presence entry for scenario name
PresentIn(name) ==
    \E e \in symbol_in_scenarios : e[1][1] = name /\ e[2] = answer.symbol_name

\* the Scenario column of frame
ScenarioColumn(frame) ==
    [i \in 1..Len(frame.rows) |-> Cell(frame, frame.rows[i], "Scenario")]

\* C15 as stated: a symbol present in A and C but not in B, queried over
\* [A, B, C], gives a table whose Scenario column holds A and C with A's rows
\* before C's rows.
C15_RequestOrder ==
    (Queried /\ lastOp.error = "none" /\ AskedList = <<"A", "B", "C">>
       /\ PresentIn("A") /\ ~PresentIn("B") /\ PresentIn("C")
       /\ DictGet(symbol_to_file, answer.symbol_name) # "output_year") =>
        /\ "Scenario" \in Range(answer.frame.columns)
        /\ Range(ScenarioColumn(answer.frame)) = {"A", "C"}
        /\ \A i, j \in 1..Len(answer.frame.rows) :
              (i < j) => ~(/\ ScenarioColumn(answer.frame)[i] = "C"
                           /\ ScenarioColumn(answer.frame)[j] = "A")

\* C16 as stated: when more than one scenario key is queried the table has
\* Scenario as its first column, holding the scenario of each row, and for a
\* symbol of the yearly role Year as its second column; when exactly one key
\* is queried it has neither.
C16_Provenance ==
    (Queried /\ lastOp.error = "none" /\ answer.frame.rows # <<>>) =>
        IF Cardinality(answer.scen_keys) > 1
        THEN /\ answer.frame.columns[1] = "Scenario"
             /\ \A i \in 1..Len(answer.frame.rows) :
                   answer.frame.rows[i][1] =
                      Cell(answer.frame, answer.frame.rows[i], "Value")[1]
             /\ DictGet(symbol_to_file, answer.symbol_name) = "output_year" =>
                   /\ Len(answer.frame.columns) >= 2
                   /\ answer.frame.columns[2] = "Year"
        ELSE /\ "Scenario" \notin Range(answer.frame.columns)
             /\ "Year" \notin Range(answer.frame.columns)

\* C17 as stated: over any sequence of queries a DataLoader is constructed at
\* most once for a role and scenario key, and a store once held stays held.
C17_OpenAtMostOnce ==
    \A load \in BagToSet(loads) :
        /\ CopiesIn(load, loads) <= 1
        /\ load.path # None =>
              <<load.scen_key, load.path[1]>> \in key_data_map[load.key]

\* C18 as stated: a query with scenarios None covers the scenario names of
\* the registry as it is when the query is made, also after filter_scenarios
\* narrowed the registry the DataManager was built on.
C18_NoneIsCurrentRegistry ==
    (Queried /\ answer.scenarios = None /\ lastOp.error = "none") =>
        /\ answer.names = DictKeys(scenarios)
        /\ \A k \in RowKeys(answer.frame) : k[1] \in DictKeys(scenarios)

\* the file the scenario of key k holds for role: None when it holds none
StoreOfRole(k, role) ==
    LET config == DictGet(dm_scenarios, k[1]) IN
    IF role = "output_year"
    THEN IF Len(k) = 2 /\ k[2] \in DictKeys(config.output_year_path)
         THEN Some(DictGet(config.output_year_path, k[2]))
         ELSE None
    ELSE KeyPath(config, role)

\* C21 as stated: whenever a requested scenario key passes the presence test
\* for a symbol, the scenario has a file for the symbol's role and that store
\* holds the symbol with at least one record, also when the symbol has
\* records under different roles in different scenarios; the query never
\* tries to open an absent path and never fails on a key that passed.
C21_RoleConsistentPresence ==
    (Queried /\ answer.raised \notin {"scenarios", "symbol"}) =>
        /\ \A k \in answer.scen_keys :
              (<<k, answer.symbol_name>> \in symbol_in_scenarios) =>
                 LET p == StoreOfRole(k, DictGet(symbol_to_file, answer.symbol_name))
                 IN  p # None /\ HasRecordIn(p[1], answer.symbol_name)
        /\ \A load \in BagToSet(loads) : load.path # None
        /\ answer.raised = "none"

---------------------------------------------------------------------------
\* a step that is one call of DataManager.get_symbol
QueryStep == dm_pc = "data_ready" /\ calls' = calls + 1

\* C24 as stated: no query, successful or failing, changes the symbol-to-role
\* map, the presence set or the registry's scenarios; a query that fails with
\* the scenarios-not-found or the symbol-not-found KeyError leaves the held
\* stores unchanged; a successful query adds held stores only for the role of
\* the symbol and for scenario keys that are among the requested ones (those
\* of the registry for None) and have a presence entry.
C24_QueryFrame ==
    [][ QueryStep =>
          /\ symbol_to_file' = symbol_to_file
          /\ symbol_in_scenarios' = symbol_in_scenarios
          /\ scenarios' = scenarios
          /\ answer'.raised \in {"scenarios", "symbol"} =>
                key_data_map' = key_data_map
          /\ answer'.raised = "none" =>
                \A role \in DOMAIN key_data_map :
                   \A held \in key_data_map'[role] \ key_data_map[role] :
                      /\ role = DictGet(symbol_to_file, answer'.symbol_name)
                      /\ held[1] \in PresentKeys' ]_vars

(* Registry claims about the year universe and the filter, checked under Spec *)

\* C22 as stated: output_years, the years a query pairs with the scenarios
\* of a yearly symbol, is the union of the yearly keys of the scenarios that
\* are in the registry, after construction and after every sequence of
\* filter_scenarios calls.
C22_YearUniverse ==
    pc = "manager_ready" => output_years = UNION YearSetsOf(scenarios)

ValidCriteria == {"all", "inout", "yearly", "both"}

\* the scenarios of a dict, each name with its descriptor, as a set
ScenarioSet(scens) == Range(scens)

\* C23: for every registry and all valid criteria c and d, filtering by c
\* twice gives the scenario set filtering once gives, filtering by c then d
\* gives the set filtering by d then c gives, and filtering by inout then
\* yearly gives the set filtering by both gives.  The first filter is the
\* call made; the others are what filter_scenarios computes from a registry.
C23_FilterAlgebra ==
    [][ (FilterStep /\ lastOp'.error = "none") =>
          LET c == CriterionOf(lastOp'.option) IN
          /\ ScenarioSet(Filtered(scenarios', c)) = ScenarioSet(scenarios')
          /\ \A d \in ValidCriteria :
                ScenarioSet(Filtered(scenarios', d)) =
                   ScenarioSet(Filtered(Filtered(scenarios, d), c))
          /\ c = "inout" =>
                ScenarioSet(Filtered(scenarios', "yearly")) =
                   ScenarioSet(Filtered(scenarios, "both")) ]_vars

\* filter("inout") narrowed a registry of three scenarios to several, and
\* filter("yearly") narrows it further, to the scenarios that have both
C23_Witness ==
    /\ lastOp.op = "filter_scenarios"
    /\ lastOp.option = Some(<<"i","n","o","u","t">>)
    /\ Cardinality(ScenarioFoldersBelow(fs)) = 3
    /\ Len(scenarios) = 2
    /\ Len(Filtered(scenarios, "yearly")) = 1

=============================================================================
